---- MODULE Spec2Model ----
(***************************************************************************)
(* Model of the Bayesian-optimization notebook.                            *)
(*                                                                         *)
(* Cell 4e86e92c (BayesianOptimization.ipynb) defines objective_function   *)
(* and pbounds, builds a bayes_opt BayesianOptimization object with        *)
(* random_state=42, calls optimizer.maximize(init_points=2, n_iter=10) and *)
(* prints optimizer.max.  Cell a9d5e73f (only in the checkpoint notebook)  *)
(* decorates an objective with skopt's use_named_args and calls            *)
(* gp_minimize.                                                            *)
(*                                                                         *)
(* Real numbers are fixed-point integers in thousandths (Milli), the       *)
(* precision of the progress table the notebook captured.  The external    *)
(* optimizer is a black box: at every evaluation it picks a point of the   *)
(* search space that it has not evaluated yet.  The pool it picks from is  *)
(* the point of the captured run at that position plus a bounded set of    *)
(* other points, so that the captured run is one behaviour of the model.   *)
(* Given a seed, its pick is a function of the seed, the bounds and the    *)
(* records so far; the record of the previous execution of the cell stands *)
(* for that function where it has been observed.                           *)
(***************************************************************************)
EXTENDS Integers, Sequences, FiniteSets

VARIABLES
    cell,        \* id of the notebook cell this kernel session executes
    run,         \* how many times the cell has been started
    prev_run,    \* <<>>, or <<the previous execution's seed, bounds and output>>
    pc,          \* position in cell 4e86e92c
    objective,   \* name bound by "def objective_function" ("undefined" before)
    pbounds,     \* the pbounds dict: parameter name -> <<low, high>>
    optimizer,   \* <<>> before construction, then <<[f, pbounds, random_state]>>
    queue,       \* number of primed random-exploration points still queued
    iteration,   \* maximize's count of acquisition-guided iterations
    res,         \* optimizer.res: the evaluation records, in evaluation order
    kinds,       \* per record, which branch of maximize's loop produced it
    rows,        \* the rows of the progress table written to stdout
    printed,     \* what print(optimizer.max) wrote: <<>> or <<record>>
    sk_pc,       \* position in cell a9d5e73f
    dims_form,   \* how that cell writes its dimension list
    sk_error,    \* the exception that terminated cell a9d5e73f ("None" if none)
    space,       \* the search space handed to gp_minimize
    gp_calls,    \* number of gp_minimize invocations
    x_iters,     \* result.x_iters: points gp_minimize evaluated
    func_vals,   \* result.func_vals: objective values in evaluation order
    sk_stdout,   \* lines printed by cell a9d5e73f
    plotted      \* the series handed to plt.plot / plt.show

vars == <<cell, run, prev_run, pc, objective, pbounds, optimizer, queue, iteration, res, kinds,
          rows, printed, sk_pc, dims_form, sk_error, space, gp_calls,
          x_iters, func_vals, sk_stdout, plotted>>

session_vars == <<cell, run, prev_run>>

bo_vars == <<pc, objective, pbounds, optimizer, queue, iteration, res, kinds,
             rows, printed>>

sk_vars == <<sk_pc, dims_form, sk_error, space, gp_calls, x_iters, func_vals,
             sk_stdout, plotted>>

----------------------------------------------------------------------------
(* Bounds of the model *)

\* how many points besides the captured run's the maximizer may pick
NumCand == 4

\* how many points besides the default ones gp_minimize may pick
NumSkCand == 2

\* how many times the maximizer cell is executed in one session
MaxRuns == 2

\* grid points per unit on which the objective is examined exhaustively
GridRes == 1

----------------------------------------------------------------------------
(* Fixed-point representation *)

\* one unit in thousandths
Milli == 1000

\* the two code cells
MaximizerCell == "4e86e92c"

MinimizerCell == "a9d5e73f"

\* a point of the two-parameter space
Pt(a, b) == [x |-> a, y |-> b]

----------------------------------------------------------------------------
(* Cell 4e86e92c: the sequential maximizer *)

objective_function_no_minus(x, y) == x * x + y * y

\* def objective_function(x, y): return -(x**2 + y**2)
\* (the value is in millionths, the square of the unit of x and y)
objective_function(x, y) == -(x * x + y * y)

PBOUNDS_swapped == [x |-> <<10 * Milli, -10 * Milli>>, y |-> <<-10 * Milli, 10 * Milli>>]

\* pbounds = {'x': (-10, 10), 'y': (-10, 10)}
PBOUNDS == [x |-> <<-10 * Milli, 10 * Milli>>, y |-> <<-10 * Milli, 10 * Milli>>]

\* random_state=42
random_state == 42

seed_arg_omitted == <<>>

\* the random_state keyword argument as the constructor receives it: <<>>
\* stands for None, the value when it is not passed
seed_arg == <<random_state>>

\* init_points=2
init_points == 2

\* n_iter=10
n_iter == 10

\* the x and y columns of the captured progress table, rows 1..12
SampleRun ==
    << Pt(-2509, 9014),   Pt(4640, 1973),    Pt(4759, 1949),
       Pt(920, -1283),    Pt(-1537, -6838),  Pt(-2523, 424),
       Pt(-10000, -1008), Pt(10000, -10000), Pt(10000, 10000),
       Pt(-10000, -10000), Pt(-10000, 10000), Pt(-434, 3244) >>

\* other points the optimizer may come up with; one lies outside the bounds
ExtraPoints ==
    << Pt(0, 0), Pt(1000, -1000), Pt(11000, 0), Pt(-1000, 1000),
       Pt(0, -10000), Pt(10000, 0) >>

Candidates == { ExtraPoints[i] : i \in 1..NumCand }

InSpace_unchecked(p, b) == TRUE

\* a point lies in the space given by a bounds mapping
InSpace(p, b) ==
    /\ b.x[1] <= p.x /\ p.x <= b.x[2]
    /\ b.y[1] <= p.y /\ p.y <= b.y[2]

Probed(rs) == { rs[i].params : i \in 1..Len(rs) }

\* the points the optimizer can pick for its next evaluation: in the space
\* it was constructed with, and not evaluated before
Pool(rs, b) ==
    { p \in Candidates \cup
            (IF Len(rs) < Len(SampleRun) THEN {SampleRun[Len(rs) + 1]} ELSE {}) :
        InSpace(p, b) /\ p \notin Probed(rs) }

IsPrefix(s, t) == Len(s) <= Len(t) /\ \A i \in 1..Len(s) : t[i] = s[i]

\* the optimizer was given a seed
Seeded(seed) == seed # <<>>

\* the points the optimizer built as opt may evaluate next.  With a seed its
\* choice is a function of the seed, the bounds and the records so far: where
\* the previous execution was in the same situation, it picks the same point.
Pick(rs, opt, prev) ==
    IF /\ prev # <<>>
       /\ Seeded(opt.random_state)
       /\ prev[1].random_state = opt.random_state
       /\ prev[1].pbounds = opt.pbounds
       /\ IsPrefix(rs, prev[1].res)
       /\ Len(rs) < Len(prev[1].res)
    THEN { prev[1].res[Len(rs) + 1].params }
    ELSE Pool(rs, opt.pbounds)

\* one evaluation record: the point and the objective's value at it
Record(p) == [target |-> objective_function(p.x, p.y), params |-> p]

\* one row of the progress table; new_max is the row's highlight colour
Row(n, r, hl) ==
    [iter |-> n, target |-> r.target, x |-> r.params.x, y |-> r.params.y,
     new_max |-> hl]

Targets(rs) == { rs[i].target : i \in 1..Len(rs) }

MaxOf(S) == CHOOSE m \in S : \A v \in S : v <= m

IsNewMax_ties(r, rs) == rs # <<>> /\ r.target >= MaxOf(Targets(rs))

\* the table highlights a row whose target is above the maximum of the
\* records before it; the first row has nothing to be above
IsNewMax(r, rs) == rs # <<>> /\ r.target > MaxOf(Targets(rs))

MinOf(S) == CHOOSE m \in S : \A v \in S : m <= v

\* index of the first record holding the maximum target
ArgMax(rs) ==
    CHOOSE i \in 1..Len(rs) :
        /\ rs[i].target = MaxOf(Targets(rs))
        /\ \A j \in 1..(i - 1) : rs[j].target < rs[i].target

optimizer_max_last(rs) ==
    [target |-> rs[Len(rs)].target, params |-> rs[Len(rs)].params]

optimizer_max_mispaired(rs) ==
    [target |-> MaxOf(Targets(rs)), params |-> rs[Len(rs)].params]

\* optimizer.max: the maximum target with the parameters of the record at
\* the arg-max
optimizer_max(rs) ==
    [target |-> MaxOf(Targets(rs)), params |-> rs[ArgMax(rs)].params]

\* the primed queue has run out
QueueEmptyAlways(q) == TRUE

QueueEmpty(q) == q = 0

\* maximize's loop goes on while points are queued or iterations remain
LoopContinuesOneMore(q, it) == ~QueueEmpty(q) \/ it <= n_iter

LoopContinues(q, it) == ~QueueEmpty(q) \/ it < n_iter

DefObjective ==
    /\ cell = MaximizerCell
    /\ UNCHANGED session_vars
    /\ pc = "def_objective"
    /\ objective' = "objective_function"
    /\ pc' = "def_pbounds"
    /\ UNCHANGED <<pbounds, optimizer, queue, iteration, res, kinds, rows, printed>>
    /\ UNCHANGED sk_vars

DefPbounds ==
    /\ cell = MaximizerCell
    /\ UNCHANGED session_vars
    /\ pc = "def_pbounds"
    /\ pbounds' = PBOUNDS
    /\ pc' = "construct"
    /\ UNCHANGED <<objective, optimizer, queue, iteration, res, kinds, rows, printed>>
    /\ UNCHANGED sk_vars

\* optimizer = BayesianOptimization(f=..., pbounds=pbounds, random_state=42)
Construct ==
    /\ cell = MaximizerCell
    /\ UNCHANGED session_vars
    /\ pc = "construct"
    /\ optimizer' = <<[f |-> objective, pbounds |-> pbounds,
                       random_state |-> seed_arg]>>
    /\ pc' = "maximize"
    /\ UNCHANGED <<objective, pbounds, queue, iteration, res, kinds, rows, printed>>
    /\ UNCHANGED sk_vars

\* optimizer.maximize(init_points=2, n_iter=10, acq='ei') is entered: the
\* random-exploration points are queued
MaximizeCall ==
    /\ cell = MaximizerCell
    /\ UNCHANGED session_vars
    /\ pc = "maximize"
    /\ queue' = init_points
    /\ iteration' = 0
    /\ pc' = "maximize_loop"
    /\ UNCHANGED <<objective, pbounds, optimizer, res, kinds, rows, printed>>
    /\ UNCHANGED sk_vars

ProbePrepend(p, kind) ==
    /\ res' = <<Record(p)>> \o res
    /\ kinds' = Append(kinds, kind)
    /\ rows' = Append(rows, Row(Len(rows) + 1, Record(p), IsNewMax(Record(p), res)))

\* the evaluation both branches of the loop end with: the objective is
\* called at p, the record is appended and its table row is printed
Probe(p, kind) ==
    /\ res' = Append(res, Record(p))
    /\ kinds' = Append(kinds, kind)
    /\ rows' = Append(rows, Row(Len(rows) + 1, Record(p), IsNewMax(Record(p), res)))

\* a queued random-exploration point is evaluated
ProbeRandom ==
    /\ cell = MaximizerCell
    /\ UNCHANGED session_vars
    /\ pc = "maximize_loop"
    /\ LoopContinues(queue, iteration)
    /\ ~QueueEmpty(queue)
    /\ \E p \in Pick(res, optimizer[1], prev_run) : Probe(p, "random")
    /\ queue' = queue - 1
    /\ UNCHANGED <<pc, objective, pbounds, optimizer, iteration, printed>>
    /\ UNCHANGED sk_vars

\* the queue is empty: the acquisition function suggests the next point
ProbeSuggest ==
    /\ cell = MaximizerCell
    /\ UNCHANGED session_vars
    /\ pc = "maximize_loop"
    /\ LoopContinues(queue, iteration)
    /\ QueueEmpty(queue)
    /\ \E p \in Pick(res, optimizer[1], prev_run) : Probe(p, "suggest")
    /\ iteration' = iteration + 1
    /\ UNCHANGED <<pc, objective, pbounds, optimizer, queue, printed>>
    /\ UNCHANGED sk_vars

MaximizeReturnEarly ==
    /\ cell = MaximizerCell
    /\ UNCHANGED session_vars
    /\ pc = "maximize_loop"
    /\ QueueEmpty(queue)
    /\ pc' = "print"
    /\ UNCHANGED <<objective, pbounds, optimizer, queue, iteration, res, kinds,
                   rows, printed>>
    /\ UNCHANGED sk_vars

\* maximize returns once the queue is empty and n_iter iterations are done
MaximizeReturn ==
    /\ cell = MaximizerCell
    /\ UNCHANGED session_vars
    /\ pc = "maximize_loop"
    /\ ~LoopContinues(queue, iteration)
    /\ pc' = "print"
    /\ UNCHANGED <<objective, pbounds, optimizer, queue, iteration, res, kinds,
                   rows, printed>>
    /\ UNCHANGED sk_vars

\* print(optimizer.max)
PrintMax ==
    /\ cell = MaximizerCell
    /\ UNCHANGED session_vars
    /\ pc = "print"
    /\ printed' = <<optimizer_max(res)>>
    /\ pc' = "done"
    /\ UNCHANGED <<objective, pbounds, optimizer, queue, iteration, res, kinds, rows>>
    /\ UNCHANGED sk_vars

\* the finished cell is executed again: its names are rebound from scratch,
\* the output of the finished execution stays on record
Rerun ==
    /\ cell = MaximizerCell
    /\ pc = "done"
    /\ run < MaxRuns
    /\ run' = run + 1
    /\ prev_run' = <<[random_state |-> optimizer[1].random_state,
                      pbounds |-> optimizer[1].pbounds,
                      res |-> res,
                      printed |-> printed[1]]>>
    /\ pc' = "def_objective"
    /\ objective' = "undefined"
    /\ pbounds' = <<>>
    /\ optimizer' = <<>>
    /\ queue' = 0
    /\ iteration' = 0
    /\ res' = <<>>
    /\ kinds' = <<>>
    /\ rows' = <<>>
    /\ printed' = <<>>
    /\ UNCHANGED cell
    /\ UNCHANGED sk_vars

----------------------------------------------------------------------------
(* Cell a9d5e73f: the skopt minimizer *)

\* n_calls=20
n_calls == 20

\* np.sin and np.cos at whole arguments 0..10, in thousandths
SinTable == <<0, 841, 909, 141, -757, -959, -279, 657, 989, 412, -544>>

CosTable == <<1000, 540, -416, -990, -654, 284, 960, 754, -146, -911, -839>>

Abs(n) == IF n < 0 THEN -n ELSE n

\* sine is odd, cosine is even
np_sin(a) == IF a < 0 THEN -SinTable[(-a) \div Milli + 1] ELSE SinTable[a \div Milli + 1]

np_cos(a) == CosTable[Abs(a) \div Milli + 1]

\* def objective_function(x, y): return np.sin(x) + np.cos(y)
sk_objective_function(x, y) == np_sin(x) + np_cos(y)

\* the dimension list as the cell writes it: ('x', Real(-10, 10)) tuples
TupleDims ==
    << [kind |-> "tuple", name |-> "x", low |-> -10 * Milli, high |-> 10 * Milli],
       [kind |-> "tuple", name |-> "y", low |-> -10 * Milli, high |-> 10 * Milli] >>

\* the list of the cell's commented-out line: Real(-10, 10, name='x') objects
TypedDims ==
    << [kind |-> "Real", name |-> "x", low |-> -10 * Milli, high |-> 10 * Milli],
       [kind |-> "Real", name |-> "y", low |-> -10 * Milli, high |-> 10 * Milli] >>

Dims(form) == IF form = "tuples" THEN TupleDims ELSE TypedDims

\* the classes that are skopt Dimension instances
DimensionKinds == {"Real", "Integer", "Categorical"}

check_list_types_lenient(ds) ==
    \A i \in 1..Len(ds) : ds[i].kind \in DimensionKinds \cup {"tuple"}

\* skopt.utils.check_list_types(x, Dimension): every element is an instance
check_list_types(ds) == \A i \in 1..Len(ds) : ds[i].kind \in DimensionKinds

\* the points gp_minimize evaluates when it picks nothing else, call 1..20
DefaultPoint(j) == Pt((j - 10) * Milli, (10 - j) * Milli)

\* other points it may pick; the first two tie at the least value of the four
SkExtraPoints == << Pt(5 * Milli, 3 * Milli), Pt(5 * Milli, -3 * Milli),
                    Pt(-2 * Milli, 3 * Milli), Pt(8 * Milli, 0) >>

SkCandidates == { SkExtraPoints[i] : i \in 1..NumSkCand }

InDims(p, ds) ==
    /\ ds[1].low <= p.x /\ p.x <= ds[1].high
    /\ ds[2].low <= p.y /\ p.y <= ds[2].high

SkPool(xs, ds) ==
    { p \in SkCandidates \cup {DefaultPoint(Len(xs) + 1)} :
        InDims(p, ds) /\ \A i \in 1..Len(xs) : xs[i] # p }

SeqRange(s) == { s[i] : i \in 1..Len(s) }

\* result.fun: the least observed objective value
result_fun(fv) == MinOf(SeqRange(fv))

\* result.x: the point of the first evaluation that attained it
result_x(xs, fv) ==
    xs[CHOOSE i \in 1..Len(fv) :
           /\ fv[i] = result_fun(fv)
           /\ \A j \in 1..(i - 1) : fv[j] > fv[i]]

\* the import statements
SkImport ==
    /\ cell = MinimizerCell
    /\ UNCHANGED session_vars
    /\ sk_pc = "import"
    /\ sk_pc' = "decorate"
    /\ UNCHANGED <<dims_form, sk_error, space, gp_calls, x_iters, func_vals,
                   sk_stdout, plotted>>
    /\ UNCHANGED bo_vars

\* @use_named_args(dimensions) applied to objective_function: the decorator
\* checks the list and raises ValueError, which nothing catches
SkDecorate ==
    /\ cell = MinimizerCell
    /\ UNCHANGED session_vars
    /\ sk_pc = "decorate"
    /\ IF check_list_types(Dims(dims_form))
         THEN sk_pc' = "space" /\ sk_error' = sk_error
         ELSE sk_pc' = "error" /\ sk_error' = "ValueError"
    /\ UNCHANGED <<dims_form, space, gp_calls, x_iters, func_vals, sk_stdout,
                   plotted>>
    /\ UNCHANGED bo_vars

\* space = [Real(-10, 10, name='x'), Real(-10, 10, name='y')]
SkBuildSpace ==
    /\ cell = MinimizerCell
    /\ UNCHANGED session_vars
    /\ sk_pc = "space"
    /\ space' = TypedDims
    /\ sk_pc' = "gp_minimize"
    /\ UNCHANGED <<dims_form, sk_error, gp_calls, x_iters, func_vals, sk_stdout,
                   plotted>>
    /\ UNCHANGED bo_vars

\* result = gp_minimize(objective_function, space, n_calls=20, random_state=42)
GpMinimizeCall ==
    /\ cell = MinimizerCell
    /\ UNCHANGED session_vars
    /\ sk_pc = "gp_minimize"
    /\ gp_calls' = gp_calls + 1
    /\ sk_pc' = "gp_loop"
    /\ UNCHANGED <<dims_form, sk_error, space, x_iters, func_vals, sk_stdout,
                   plotted>>
    /\ UNCHANGED bo_vars

\* one of the n_calls evaluations of the objective
GpEvaluate ==
    /\ cell = MinimizerCell
    /\ UNCHANGED session_vars
    /\ sk_pc = "gp_loop"
    /\ Len(func_vals) < n_calls
    /\ \E p \in SkPool(x_iters, space) :
          /\ x_iters' = Append(x_iters, p)
          /\ func_vals' = Append(func_vals, sk_objective_function(p.x, p.y))
    /\ UNCHANGED <<sk_pc, dims_form, sk_error, space, gp_calls, sk_stdout, plotted>>
    /\ UNCHANGED bo_vars

GpReturn ==
    /\ cell = MinimizerCell
    /\ UNCHANGED session_vars
    /\ sk_pc = "gp_loop"
    /\ Len(func_vals) >= n_calls
    /\ sk_pc' = "print"
    /\ UNCHANGED <<dims_form, sk_error, space, gp_calls, x_iters, func_vals,
                   sk_stdout, plotted>>
    /\ UNCHANGED bo_vars

\* print(... result.x), print(... result.fun)
SkPrint ==
    /\ cell = MinimizerCell
    /\ UNCHANGED session_vars
    /\ sk_pc = "print"
    /\ sk_stdout' = <<[x |-> result_x(x_iters, func_vals),
                       fun |-> result_fun(func_vals)]>>
    /\ sk_pc' = "plot"
    /\ UNCHANGED <<dims_form, sk_error, space, gp_calls, x_iters, func_vals, plotted>>
    /\ UNCHANGED bo_vars

\* plt.plot(result.func_vals) ... plt.show()
SkPlot ==
    /\ cell = MinimizerCell
    /\ UNCHANGED session_vars
    /\ sk_pc = "plot"
    /\ plotted' = <<func_vals>>
    /\ sk_pc' = "done"
    /\ UNCHANGED <<dims_form, sk_error, space, gp_calls, x_iters, func_vals,
                   sk_stdout>>
    /\ UNCHANGED bo_vars

----------------------------------------------------------------------------
(* Specifications *)

InitSk ==
    /\ sk_pc = "import"
    /\ dims_form \in {"tuples", "typed"}
    /\ sk_error = "None"
    /\ space = <<>>
    /\ gp_calls = 0
    /\ x_iters = <<>>
    /\ func_vals = <<>>
    /\ sk_stdout = <<>>
    /\ plotted = <<>>

InitBo ==
    /\ pc = "def_objective"
    /\ objective = "undefined"
    /\ pbounds = <<>>
    /\ optimizer = <<>>
    /\ queue = 0
    /\ iteration = 0
    /\ res = <<>>
    /\ kinds = <<>>
    /\ rows = <<>>
    /\ printed = <<>>

\* a kernel session executes one of the two code cells, from a fresh kernel
Init ==
    /\ cell \in {MaximizerCell, MinimizerCell}
    /\ run = 1
    /\ prev_run = <<>>
    /\ InitBo
    /\ InitSk
    /\ (cell = MaximizerCell => dims_form = "tuples")

Next ==
    \/ DefObjective
    \/ DefPbounds
    \/ Construct
    \/ MaximizeCall
    \/ ProbeRandom
    \/ ProbeSuggest
    \/ MaximizeReturn
    \/ PrintMax
    \/ SkImport
    \/ SkDecorate
    \/ SkBuildSpace
    \/ GpMinimizeCall
    \/ GpEvaluate
    \/ GpReturn
    \/ SkPrint
    \/ SkPlot

Spec == Init /\ [][Next]_vars

\* the same session when the maximizer cell may be executed repeatedly
NextRerun ==
    \/ Next
    \/ Rerun

SpecRerun == Init /\ [][NextRerun]_vars

----------------------------------------------------------------------------
(* Properties *)

RowTargets == { rows[i].target : i \in 1..Len(rows) }

\* C1: once the maximizer cell has printed optimizer.max, the printed target
\* is one of the per-iteration targets of the progress table and no
\* per-iteration target is greater; once the minimizer cell has printed
\* result.fun, it is one of result.func_vals and none of them is smaller.
C1_BestIsExtreme ==
    /\ printed # <<>> =>
          /\ printed[1].target \in RowTargets
          /\ \A t \in RowTargets : t <= printed[1].target
    /\ sk_stdout # <<>> =>
          /\ sk_stdout[1].fun \in SeqRange(func_vals)
          /\ \A v \in SeqRange(func_vals) : sk_stdout[1].fun <= v

\* a finished maximizer run whose best record is neither the first nor the
\* last one evaluated
C1_Witness ==
    /\ pc = "done"
    /\ printed[1].target > rows[1].target
    /\ printed[1].target > rows[Len(rows)].target

\* C2: when maximize has returned, the progress table has exactly
\* init_points + n_iter rows, 12 in the notebook's call, numbered 1, 2, ...
\* in order without gaps or repeats; while it runs, the table has one row
\* per evaluation made so far.
C2_RowCount ==
    /\ \A i \in 1..Len(rows) : rows[i].iter = i
    /\ Len(rows) = Len(res)
    /\ pc = "maximize_loop" => Len(rows) = (init_points - queue) + iteration
    /\ pc \in {"print", "done"} =>
          /\ Len(rows) = init_points + n_iter
          /\ Len(rows) = 12

\* maximize has returned with its table complete
C2_Witness ==
    /\ pc = "print"
    /\ Len(rows) = 12
    /\ rows[12].iter = 12

SkNoOutput ==
    /\ gp_calls = 0
    /\ x_iters = <<>>
    /\ func_vals = <<>>
    /\ sk_stdout = <<>>
    /\ plotted = <<>>

\* C4: when the dimension list is written as plain tuples, the cell gets
\* past its decorator only into the error state, with a ValueError; there
\* gp_minimize has not been invoked, no evaluation record exists, nothing
\* is printed or plotted, and no step leaves the error state or changes
\* anything of the cell.
C4_TuplesFail ==
    /\ [](dims_form = "tuples" /\ sk_pc \notin {"import", "decorate"} =>
             /\ sk_pc = "error"
             /\ sk_error = "ValueError"
             /\ SkNoOutput)
    /\ [](sk_error # "None" => sk_pc = "error" /\ SkNoOutput)
    /\ [][sk_pc = "error" => UNCHANGED sk_vars]_vars

\* the cell as written has hit the decorator's check
C4_Witness ==
    /\ cell = MinimizerCell
    /\ dims_form = "tuples"
    /\ sk_pc = "error"
    /\ sk_error = "ValueError"

\* the points of the search space at GridRes points per unit
SearchGrid ==
    { Pt((i * Milli) \div GridRes, (j * Milli) \div GridRes) :
        i \in (-10 * GridRes)..(10 * GridRes),
        j \in (-10 * GridRes)..(10 * GridRes) }

\* on the grid the objective is at most 0, and 0 only at the origin
MaximumOnGrid ==
    \A p \in SearchGrid :
        /\ InSpace(p, PBOUNDS)
        /\ objective_function(p.x, p.y) <= 0
        /\ (objective_function(p.x, p.y) = 0 <=> p = Pt(0, 0))

\* C5: at every point of the search space the objective is at most 0, and
\* it is 0 only at the origin; so no evaluation record has a target above
\* 0 and the printed best value is never above 0.
C5_TrueMaximum ==
    /\ MaximumOnGrid
    /\ \A i \in 1..Len(res) :
          /\ res[i].target <= 0
          /\ (res[i].target = 0 <=> res[i].params = Pt(0, 0))
    /\ printed # <<>> => printed[1].target <= 0

\* a run that evaluated the origin and reported the true maximum
C5_Witness ==
    /\ pc = "done"
    /\ printed[1].target = 0
    /\ printed[1].params = Pt(0, 0)
    /\ Len(res) = 12

\* C6: an evaluation record exists only after the objective and the search
\* space are defined and the optimizer is built from them, and from then on
\* none of the three changes; the statement after the optimizer call is
\* reached only when all its evaluations are made; the result is printed
\* only then; and once it is printed no record is added and it does not
\* change.
C6_Lifecycle ==
    /\ [](res # <<>> =>
             /\ objective = "objective_function"
             /\ pbounds = PBOUNDS
             /\ optimizer # <<>>
             /\ optimizer[1].f = objective
             /\ optimizer[1].pbounds = pbounds)
    /\ [](pc \in {"print", "done"} =>
             /\ Len(res) = init_points + n_iter
             /\ queue = 0
             /\ iteration = n_iter)
    /\ [](printed # <<>> <=> pc = "done")
    /\ [](sk_pc \in {"print", "plot", "done"} => Len(func_vals) = n_calls)
    /\ [](sk_stdout # <<>> => sk_pc \in {"plot", "done"})
    /\ [][res # <<>> => UNCHANGED <<objective, pbounds, optimizer>>]_vars
    /\ [][printed # <<>> => UNCHANGED <<res, rows, printed>>]_vars
    /\ [][sk_stdout # <<>> => UNCHANGED <<x_iters, func_vals, sk_stdout>>]_vars

\* the result has been printed after all twelve evaluations
C6_Witness ==
    /\ pc = "done"
    /\ printed # <<>>
    /\ Len(res) = init_points + n_iter
    /\ objective = "objective_function"

\* C7: every step leaves the records created so far in place and unchanged,
\* and a step that evaluates (it prints a table row) adds exactly one
\* record, at the end, holding the evaluated point and its objective value;
\* no other step adds a record.
C7_AppendOnly ==
    [][/\ IsPrefix(res, res')
       /\ Len(res') <= Len(res) + 1
       /\ (rows' # rows <=> Len(res') = Len(res) + 1)
       /\ (Len(res') = Len(res) + 1 =>
              /\ res'[Len(res')].params.x = rows'[Len(rows')].x
              /\ res'[Len(res')].params.y = rows'[Len(rows')].y
              /\ res'[Len(res')].target = rows'[Len(rows')].target)
       /\ IsPrefix(x_iters, x_iters')
       /\ IsPrefix(func_vals, func_vals')
       /\ Len(x_iters') = Len(func_vals')
       /\ Len(func_vals') <= Len(func_vals) + 1]_vars

\* several records have accumulated
C7_Witness ==
    /\ pc = "maximize_loop"
    /\ Len(res) = 3
    /\ res[1] # res[2]

\* C8: every entry of pbounds, and of the bounds the optimizer was built
\* with, has low <= high, in every state; once defined, pbounds is
\* x: (-10, 10), y: (-10, 10) and no step changes it.
C8_BoundsOrdered ==
    /\ [](\A k \in DOMAIN pbounds : pbounds[k][1] <= pbounds[k][2])
    /\ [](optimizer # <<>> =>
             \A k \in DOMAIN optimizer[1].pbounds :
                 optimizer[1].pbounds[k][1] <= optimizer[1].pbounds[k][2])
    /\ [](pc \notin {"def_objective", "def_pbounds"} =>
             /\ DOMAIN pbounds = {"x", "y"}
             /\ pbounds.x = <<-10 * Milli, 10 * Milli>>
             /\ pbounds.y = <<-10 * Milli, 10 * Milli>>)
    /\ [][pc \notin {"def_objective", "def_pbounds"} => pbounds' = pbounds]_vars
    /\ [][optimizer # <<>> => optimizer' = optimizer]_vars

\* the run is under way over the defined search space
C8_Witness ==
    /\ DOMAIN pbounds = {"x", "y"}
    /\ pbounds.x[1] < pbounds.x[2]
    /\ Len(res) = 5

\* C9: the first init_points records come from random exploration and all
\* later ones from optimization iterations, so no random-exploration
\* evaluation follows an optimization iteration; in the finished run rows
\* 1..2 are random exploration and rows 3..12 are optimization iterations.
C9_PhaseOrder ==
    /\ Len(kinds) = Len(res)
    /\ \A i \in 1..Len(kinds) :
          kinds[i] = IF i <= init_points THEN "random" ELSE "suggest"
    /\ \A i, j \in 1..Len(kinds) :
          (kinds[i] = "suggest" /\ i < j) => kinds[j] = "suggest"
    /\ pc \in {"print", "done"} =>
          /\ { i \in 1..Len(kinds) : kinds[i] = "random" } = 1..2
          /\ { i \in 1..Len(kinds) : kinds[i] = "suggest" } = 3..12

\* both phases have run
C9_Witness ==
    /\ pc = "print"
    /\ kinds[2] = "random"
    /\ kinds[3] = "suggest"
    /\ kinds[12] = "suggest"

\* C10: in every record the target is -(x^2 + y^2) of the record's own
\* parameters, and the printed result is one of the records of the run.
C10_ResultIsRecord ==
    /\ \A i \in 1..Len(res) :
          res[i].target = -(res[i].params.x * res[i].params.x
                            + res[i].params.y * res[i].params.y)
    /\ printed # <<>> =>
          /\ \E i \in 1..Len(res) : res[i] = printed[1]
          /\ printed[1].target = -(printed[1].params.x * printed[1].params.x
                                   + printed[1].params.y * printed[1].params.y)

\* the captured run: the result is row 4, not the last row
C10_Witness ==
    /\ pc = "done"
    /\ printed[1] = res[4]
    /\ printed[1].params = Pt(920, -1283)
    /\ printed[1].target = -2492489
    /\ res[12].params = Pt(-434, 3244)

\* a point lies in x, y in [-10, 10]
InBox(a, b) ==
    /\ -10 * Milli <= a /\ a <= 10 * Milli
    /\ -10 * Milli <= b /\ b <= 10 * Milli

\* C11: every evaluation record, whether from random exploration or from an
\* optimization iteration, has -10 <= x <= 10 and -10 <= y <= 10 and lies in
\* the space the optimizer was built with, so its target lies in
\* [-200, 0]; the same holds of every table row, and the printed best
\* parameters are inside the bounds.
C11_PointsInBounds ==
    /\ \A i \in 1..Len(res) :
          /\ InBox(res[i].params.x, res[i].params.y)
          /\ optimizer[1].pbounds.x[1] <= res[i].params.x
          /\ res[i].params.x <= optimizer[1].pbounds.x[2]
          /\ optimizer[1].pbounds.y[1] <= res[i].params.y
          /\ res[i].params.y <= optimizer[1].pbounds.y[2]
          /\ -200 * Milli * Milli <= res[i].target
          /\ res[i].target <= 0
    /\ \A i \in 1..Len(rows) :
          /\ InBox(rows[i].x, rows[i].y)
          /\ -200 * Milli * Milli <= rows[i].target
          /\ rows[i].target <= 0
    /\ printed # <<>> =>
          /\ InBox(printed[1].params.x, printed[1].params.y)
          /\ -200 * Milli * Milli <= printed[1].target
          /\ printed[1].target <= 0

\* a finished run with a point other than the captured one in the random
\* phase and a corner of the space, target -200, in the optimization phase
C11_Witness ==
    /\ pc = "done"
    /\ kinds[1] = "random"
    /\ res[1].params = Pt(1000, -1000)
    /\ kinds[8] = "suggest"
    /\ res[8].params = Pt(10000, -10000)
    /\ res[8].target = -200 * Milli * Milli

\* the maximum target over the records produced so far
BestSoFar(rs) == MaxOf(Targets(rs))

Highlighted == { i \in 1..Len(rows) : rows[i].new_max }

\* C12: from one evaluation to the next the best-so-far value never
\* decreases; it changes exactly when the new target is strictly above every
\* earlier target, and exactly those rows are highlighted in the table (rows
\* 2 and 4 when the points are the captured run's); the printed value is
\* the best-so-far after the last evaluation.
C12_BestSoFarMonotone ==
    /\ [][(res # <<>> /\ Len(res') = Len(res) + 1) =>
             /\ BestSoFar(res') >= BestSoFar(res)
             /\ (BestSoFar(res') # BestSoFar(res) <=>
                    \A j \in 1..Len(res) : res[j].target < res'[Len(res')].target)
             /\ (rows'[Len(rows')].new_max <=> BestSoFar(res') # BestSoFar(res))]_vars
    /\ [](rows # <<>> => ~rows[1].new_max)
    /\ []((Len(res) = Len(SampleRun)
             /\ \A i \in 1..Len(res) : res[i].params = SampleRun[i])
           => Highlighted = {2, 4})
    /\ [](printed # <<>> =>
             /\ Len(res) = init_points + n_iter
             /\ printed[1].target = BestSoFar(res))

\* the captured run has finished: the best-so-far rose at rows 2 and 4 only
\* and the value of row 4 is printed
C12_Witness ==
    /\ pc = "done"
    /\ \A i \in 1..Len(res) : res[i].params = SampleRun[i]
    /\ Highlighted = {2, 4}
    /\ printed[1].target = rows[4].target
    /\ rows[2].target < rows[4].target

====
